---- MODULE Spec2Model ----
(***************************************************************************)
(* Model of two components of rtems-tools:                                 *)
(*   - Coverage::SymbolTable  (tester/covoar/SymbolTable.cc): the address  *)
(*     range symbol index (addSymbol, getLength, getSymbol);               *)
(*   - rtems-syms             (linkers/rtems-syms.cpp): symbol_filter,     *)
(*     output_sym, generate_c, generate_symmap and main.                   *)
(* Spec     is the symbol table driven by arbitrary call sequences.        *)
(* SpecSyms is one run of the rtems-syms main program.                     *)
(***************************************************************************)
EXTENDS Integers, Sequences, FiniteSets, TLC

\* ---------------------------------------------------------------- bounds
\* Largest start address handed to addSymbol.
MaxAddr == 1
\* Largest length handed to addSymbol.
MaxLen == 2
\* Number of addSymbol calls in one behaviour.
MaxCalls == 3
\* Modulus standing for the 2^32 of uint32_t arithmetic (scaled down).
AddrMod == 8

SymbolNames == {"A", "B"}
Addresses == 0 .. (AddrMod - 1)
Starts == 0 .. MaxAddr
\* Symbols handed to addSymbol cover at least one byte.
Lengths == 1 .. MaxLen

VARIABLES
  contents,   \* SymbolTable::contents : map end address -> symbol_entry_t
  info,       \* SymbolTable::info     : map symbol -> list of symbolInfo_t
  log,        \* history: the addSymbol calls made, with their outcome
  ret,        \* value returned by the last SymbolTable call
  ub,         \* TRUE once front() was applied to an empty record list
  pc,             \* position of main
  argc,           \* number of kernel files left after option parsing
  expr,           \* symbol_filter::expr, the -F / -f expressions in order
  globals, weaks, \* symbols.globals (), symbols.weaks () of the kernel
  map, output,    \* TRUE when -m / -o was given (string not empty)
  embed,          \* -e
  filter_symbols, \* main's filter_symbols symtab
  mapFile,        \* "none" or "written": the map file of this run
  c,              \* lines written to the tempfile c
  ccInvoked,      \* rld::process::execute was called
  objectFile,     \* the compiler produced the output object
  ec,             \* exit code of main
  where           \* where of the exception that ended the run, "" if none

tableVars == <<contents, info, log, ret, ub>>
symsVars == <<pc, argc, expr, globals, weaks, map, output, embed,
              filter_symbols, mapFile, c, ccInvoked, objectFile, ec, where>>
vars == <<contents, info, log, ret, ub,
          pc, argc, expr, globals, weaks, map, output, embed,
          filter_symbols, mapFile, c, ccInvoked, objectFile, ec, where>>

\* ------------------------------------------------- Coverage::SymbolTable

\* std::map::operator[] used as an lvalue: insert or overwrite one key.
MapPut(m, k, v) == [x \in (DOMAIN m) \cup {k} |-> IF x = k THEN v ELSE m[x]]

\* info[ symbol ] : operator[] default-constructs an empty list when absent.
InfoAt(m, symbol) == IF symbol \in DOMAIN m THEN m ELSE MapPut(m, symbol, <<>>)

\* uint32_t end = start + length - 1
EndOf(start, length) == (start + length - 1) % AddrMod

symbol_entry(symbol, start, length) ==
  [low |-> start, high |-> EndOf(start, length), symbol |-> symbol]

\* The loop of addSymbol: some record with the same starting address has a
\* different length.
ConflictsAnyStart(recs, start, length) ==
  \E i \in 1 .. Len(recs) : recs[i].length # length
ConflictsNever(recs, start, length) == FALSE
Conflicts(recs, start, length) ==
  \E i \in 1 .. Len(recs) :
     /\ recs[i].startingAddress = start
     /\ recs[i].length # length

push_back(recs, d) == Append(recs, d)

\* contents.lower_bound( address ): the least key not less than address.
lower_bound(m, address) ==
  LET ks == {k \in DOMAIN m : k >= address}
  IN  IF ks = {} THEN -1 ELSE CHOOSE k \in ks : \A j \in ks : k <= j

getSymbol(address) ==
  IF Cardinality(DOMAIN contents) = 0 THEN ""
  ELSE LET it == lower_bound(contents, address)
       IN  IF it # -1 /\ contents[it].low <= address
           THEN contents[it].symbol
           ELSE ""

\* info.find / front().length.  The result is a set: front() of an empty
\* vector is undefined behaviour and may yield any value.
getLength_back(symbol) ==
  IF symbol \notin DOMAIN info THEN {0}
  ELSE IF info[symbol] = <<>> THEN Lengths
  ELSE {info[symbol][Len(info[symbol])].length}
getLength(symbol) ==
  IF symbol \notin DOMAIN info THEN {0}
  ELSE IF info[symbol] = <<>> THEN Lengths
  ELSE {info[symbol][1].length}

addSymbol(symbol, start, length) ==
  LET symbolData == [startingAddress |-> start, length |-> length]
      info1 == InfoAt(info, symbol)
      threw == Conflicts(info1[symbol], start, length)
  IN  /\ Len(log) < MaxCalls
      /\ contents' = MapPut(contents, EndOf(start, length),
                            symbol_entry(symbol, start, length))
      /\ info' = IF threw THEN info1
                 ELSE MapPut(info1, symbol, push_back(info1[symbol], symbolData))
      /\ log' = Append(log, [symbol |-> symbol, start |-> start,
                             length |-> length, threw |-> threw])
      /\ ret' = [op |-> "addSymbol",
                  val |-> IF threw THEN "rld::error" ELSE "void"]
      /\ UNCHANGED <<ub>>
      /\ UNCHANGED symsVars

GetLength(symbol) ==
  /\ \E v \in getLength(symbol) : ret' = [op |-> "getLength", val |-> v]
  /\ ub' = (ub \/ (symbol \in DOMAIN info /\ info[symbol] = <<>>))
  /\ UNCHANGED <<contents, info, log>>
  /\ UNCHANGED symsVars

GetSymbol(address) ==
  /\ ret' = [op |-> "getSymbol", val |-> getSymbol(address)]
  /\ UNCHANGED <<contents, info, log, ub>>
  /\ UNCHANGED symsVars

SymsIdle ==
  /\ pc = "idle" /\ argc = 0 /\ expr = <<>> /\ globals = <<>> /\ weaks = <<>>
  /\ map = FALSE /\ output = FALSE /\ embed = FALSE
  /\ filter_symbols = <<>> /\ mapFile = "none" /\ c = <<>>
  /\ ccInvoked = FALSE /\ objectFile = FALSE /\ ec = 0 /\ where = ""

TableInit ==
  /\ contents = <<>> /\ info = <<>> /\ log = <<>> /\ ret = [op |-> "none", val |-> "void"] /\ ub = FALSE

Init == TableInit /\ SymsIdle

Next ==
  \/ \E symbol \in SymbolNames, start \in Starts, length \in Lengths :
        addSymbol(symbol, start, length)
  \/ \E symbol \in SymbolNames : GetLength(symbol)
  \/ \E address \in Addresses : GetSymbol(address)

Spec == Init /\ [][Next]_vars

\* ------------------------------------------------------------ rtems-syms

\* Number of expressions given on the command line.
MaxExpr == 2

Sym(name, demangled, value, type, binding) ==
  [name |-> name, demangled |-> demangled, value |-> value,
   type |-> type, binding |-> binding]

\* The symbols a kernel may hold (rld::symbols::symbol, external).
GlobalPool ==
  { Sym("foo", <<"f","o","o">>, 2125315823, "STT_FUNC", "global"),
    Sym("foob", <<"f","o","o","b">>, 16, "STT_OBJECT", "global"),
    Sym("_Z2fov", <<"f","o","(",")">>, 0, "STT_FUNC", "global") }
WeakPool ==
  { Sym("wo", <<"w","o">>, 48879, "STT_TLS", "weak"),
    Sym("foo2", <<"f","o","o","2">>, 0, "STT_FUNC", "weak") }

\* Iteration order of std::map < std::string, symbol* > over the pool's keys.
NameOrder == <<"_Z2fov", "foo", "foo2", "foob", "wo">>

\* A symtab: map from name to symbol.
SymtabOf(S) == [n \in {s.name : s \in S} |-> CHOOSE s \in S : s.name = n]
Symtabs(pool) == {SymtabOf(S) : S \in SUBSET pool}

\* The expressions: ^foo$   fo.*   foo   .*o   and the malformed  *f
ExprPool ==
  { <<"^","f","o","o","$">>, <<"f","o",".","*">>, <<"f","o","o">>,
    <<".","*","o">>, <<"*","f">> }

RECURSIVE SeqsUpTo(_, _)
SeqsUpTo(S, n) ==
  IF n = 0 THEN {<<>>}
  ELSE LET shorter == SeqsUpTo(S, n - 1)
       IN  shorter \cup {Append(q, x) : q \in shorter, x \in S}

\* std::regex (re): the constructor throws std::regex_error when a '*' has
\* nothing to repeat.
regex_valid(re) ==
  \A i \in 1 .. Len(re) :
     (re[i] = "*") => (i > 1 /\ re[i - 1] \notin {"*", "^"})

atom_match(a, ch) == a = "." \/ a = ch

\* ECMAScript matching of re from position i against s from position j;
\* with full the match has to end at the end of s.
RECURSIVE match_here(_, _, _, _, _)
match_here(re, i, s, j, full) ==
  IF i > Len(re) THEN (~full \/ j = Len(s) + 1)
  ELSE IF re[i] = "^" THEN j = 1 /\ match_here(re, i + 1, s, j, full)
  ELSE IF re[i] = "$" THEN j = Len(s) + 1 /\ match_here(re, i + 1, s, j, full)
  ELSE IF i < Len(re) /\ re[i + 1] = "*"
       THEN \E k \in j .. (Len(s) + 1) :
               /\ \A x \in j .. (k - 1) : atom_match(re[i], s[x])
               /\ match_here(re, i + 2, s, k, full)
  ELSE /\ j <= Len(s)
       /\ atom_match(re[i], s[j])
       /\ match_here(re, i + 1, s, j + 1, full)

regex_search(s, re) == \E j \in 1 .. (Len(s) + 1) : match_here(re, 1, s, j, FALSE)
regex_match(s, re) == match_here(re, 1, s, 1, TRUE)

\* filtered_symbols[sym.first] = sym.second for every sym of src kept by keep.
Insert(filtered_symbols, src, keep) ==
  [n \in (DOMAIN filtered_symbols) \cup keep |->
     IF n \in keep THEN src[n] ELSE filtered_symbols[n]]

RECURSIVE filter_expr(_, _, _)
filter_expr(ex, symbols, filtered_symbols) ==
  IF ex = <<>> THEN [threw |-> FALSE, out |-> filtered_symbols]
  ELSE IF ~regex_valid(Head(ex)) THEN [threw |-> TRUE, out |-> filtered_symbols]
  ELSE filter_expr(Tail(ex), symbols,
         Insert(filtered_symbols, symbols,
                {n \in DOMAIN symbols : regex_match(symbols[n].demangled, Head(ex))}))

filter_no_copy(ex, symbols, filtered_symbols) ==
  IF Len(ex) > 0 THEN filter_expr(ex, symbols, filtered_symbols)
  ELSE [threw |-> FALSE, out |-> filtered_symbols]
\* symbol_filter::filter with this->expr = ex.
filter(ex, symbols, filtered_symbols) ==
  IF Len(ex) > 0 THEN filter_expr(ex, symbols, filtered_symbols)
  ELSE [threw |-> FALSE,
        out |-> Insert(filtered_symbols, symbols, DOMAIN symbols)]

size_never_zero(symtab) == FALSE
\* filter_symbols.size () == 0
size_is_zero(symtab) == Cardinality(DOMAIN symtab) = 0

HexDigit == <<"0","1","2","3","4","5","6","7","8","9","a","b","c","d","e","f">>

\* operator<< of an unsigned value under std::hex.
RECURSIVE to_hex(_)
to_hex(v) ==
  IF v < 16 THEN <<HexDigit[v + 1]>>
  ELSE Append(to_hex(v \div 16), HexDigit[(v % 16) + 1])

\* std::setfill ('0') << std::setw (w): pad on the left up to width w.
RECURSIVE setw_fill(_, _)
setw_fill(digits, w) ==
  IF Len(digits) >= w THEN digits ELSE setw_fill(<<"0">> \o digits, w)

oss_str_unpadded(value) == to_hex(value)
\* oss << std::hex << std::setfill ('0') << std::setw (8) << sym.value ()
oss_str(value) == setw_fill(to_hex(value), 8)

Line(op, sym, lit) == [op |-> op, sym |-> sym, lit |-> lit]

\* output_sym::operator (): the lines written for one symbol.
output_sym(e, weak, sym) ==
  IF weak /\ sym.value = 0 THEN <<>>
  ELSE <<Line(".asciz", sym.name, <<>>)>>
       \o (IF sym.type = "STT_TLS"
           THEN <<Line(".type %tls_object", sym.name, <<>>)>> ELSE <<>>)
       \o (IF e
           THEN << Line("#if __SIZEOF_POINTER__ == 8", "", <<>>),
                   Line(".quad", sym.name, <<>>),
                   Line("#else", "", <<>>),
                   Line(".long", sym.name, <<>>),
                   Line("#endif", "", <<>>) >>
           ELSE << Line("#if __SIZEOF_POINTER__ == 8", "", <<>>),
                   Line(".quad", "", oss_str(sym.value)),
                   Line("#else", "", <<>>),
                   Line(".long", "", oss_str(sym.value)),
                   Line("#endif", "", <<>>) >>)

\* std::for_each (symbols.begin (), symbols.end (), output_sym (c, embed, false))
RECURSIVE for_each_output_sym(_, _, _)
for_each_output_sym(symbols, e, i) ==
  IF i > Len(NameOrder) THEN <<>>
  ELSE (IF NameOrder[i] \in DOMAIN symbols
        THEN output_sym(e, FALSE, symbols[NameOrder[i]]) ELSE <<>>)
       \o for_each_output_sym(symbols, e, i + 1)

generate_c(symbols, e) ==
  <<Line("c_header", "", <<>>)>>
  \o for_each_output_sym(symbols, e, 1)
  \o <<Line("c_trailer", "", <<>>)>>
  \o (IF e THEN <<Line("c_embedded_trailer", "", <<>>)>>
           ELSE <<Line("c_constructor_trailer", "", <<>>)>>)

\* The run ends with an exception caught by main's handlers.
Throw(code, w) == pc' = "done" /\ ec' = code /\ where' = w

inputVars == <<argc, expr, globals, weaks, map, output, embed>>

\* main, lines 530-535: the checks on the command line.
Options ==
  /\ pc = "options"
  /\ IF argc # 1 \/ (~output /\ ~map)
     THEN Throw(10, "options")
     ELSE pc' = "load" /\ UNCHANGED <<ec, where>>
  /\ UNCHANGED <<filter_symbols, mapFile, c, ccInvoked, objectFile>>
  /\ UNCHANGED inputVars /\ UNCHANGED tableVars

\* main, lines 550-563: the kernel is opened and its symbols loaded; the
\* external loader may fail with rld::error.
LoadSymbols ==
  /\ pc = "load"
  /\ \/ pc' = "filter_globals" /\ UNCHANGED <<ec, where>>
     \/ Throw(10, "load")
  /\ UNCHANGED <<filter_symbols, mapFile, c, ccInvoked, objectFile>>
  /\ UNCHANGED inputVars /\ UNCHANGED tableVars

\* main, line 569: filter.filter (symbols.globals (), filter_symbols)
FilterGlobals ==
  /\ pc = "filter_globals"
  /\ LET r == filter(expr, globals, filter_symbols)
     IN  /\ filter_symbols' = r.out
         /\ IF r.threw THEN Throw(11, "std::regex_error")
            ELSE pc' = "filter_weaks" /\ UNCHANGED <<ec, where>>
  /\ UNCHANGED <<mapFile, c, ccInvoked, objectFile>>
  /\ UNCHANGED inputVars /\ UNCHANGED tableVars

\* main, line 570: filter.filter (symbols.weaks (), filter_symbols)
FilterWeaks ==
  /\ pc = "filter_weaks"
  /\ LET r == filter(expr, weaks, filter_symbols)
     IN  /\ filter_symbols' = r.out
         /\ IF r.threw THEN Throw(11, "std::regex_error")
            ELSE pc' = "check" /\ UNCHANGED <<ec, where>>
  /\ UNCHANGED <<mapFile, c, ccInvoked, objectFile>>
  /\ UNCHANGED inputVars /\ UNCHANGED tableVars

\* main, lines 571-572.
CheckFiltered ==
  /\ pc = "check"
  /\ IF size_is_zero(filter_symbols)
     THEN Throw(10, "filter")
     ELSE pc' = "map" /\ UNCHANGED <<ec, where>>
  /\ UNCHANGED <<filter_symbols, mapFile, c, ccInvoked, objectFile>>
  /\ UNCHANGED inputVars /\ UNCHANGED tableVars

\* main, lines 579-590: the map file; the open may fail.
CreateMap ==
  /\ pc = "map"
  /\ IF ~map
     THEN pc' = "output" /\ UNCHANGED <<ec, where, mapFile>>
     ELSE \/ mapFile' = "written" /\ pc' = "output" /\ UNCHANGED <<ec, where>>
          \/ Throw(10, "map") /\ UNCHANGED mapFile
  /\ UNCHANGED <<filter_symbols, c, ccInvoked, objectFile>>
  /\ UNCHANGED inputVars /\ UNCHANGED tableVars

\* main, lines 595-609 and generate_symmap: the source is generated and the
\* compiler run; status is its exit status.
CreateOutput ==
  /\ pc = "output"
  /\ IF ~output
     THEN pc' = "close" /\ UNCHANGED <<ec, where, c, ccInvoked, objectFile>>
     ELSE /\ c' = generate_c(filter_symbols, embed)
          /\ ccInvoked' = TRUE
          /\ \E status \in {[type |-> "normal", code |-> 0],
                            [type |-> "normal", code |-> 1],
                            [type |-> "signal", code |-> 0]} :
                IF status.type # "normal" \/ status.code # 0
                THEN Throw(10, "compiling wrapper") /\ UNCHANGED objectFile
                ELSE objectFile' = TRUE /\ pc' = "close" /\ UNCHANGED <<ec, where>>
  /\ UNCHANGED <<filter_symbols, mapFile>>
  /\ UNCHANGED inputVars /\ UNCHANGED tableVars

\* main, lines 611-650: kernel.close () and return ec.
Close ==
  /\ pc = "close"
  /\ pc' = "done"
  /\ UNCHANGED <<ec, where, filter_symbols, mapFile, c, ccInvoked, objectFile>>
  /\ UNCHANGED inputVars /\ UNCHANGED tableVars

SymsInit ==
  /\ pc = "options"
  /\ argc \in 0 .. 2
  /\ expr \in SeqsUpTo(ExprPool, MaxExpr)
  /\ globals \in Symtabs(GlobalPool)
  /\ weaks \in Symtabs(WeakPool)
  /\ map \in BOOLEAN /\ output \in BOOLEAN /\ embed \in BOOLEAN
  /\ filter_symbols = <<>> /\ mapFile = "none" /\ c = <<>>
  /\ ccInvoked = FALSE /\ objectFile = FALSE /\ ec = 0 /\ where = ""

InitSyms == TableInit /\ SymsInit

NextSyms ==
  \/ Options
  \/ LoadSymbols
  \/ FilterGlobals
  \/ FilterWeaks
  \/ CheckFiltered
  \/ CreateMap
  \/ CreateOutput
  \/ Close

SpecSyms == InitSyms /\ [][NextSyms]_vars

\* ------------------------------------------------ properties of the table

\* The address a lies in the range [start, start+length-1] of a logged call.
InRange(call, a) == call.start <= a /\ a <= EndOf(call.start, call.length)

\* The logged calls have pairwise distinct (name, start) pairs.
DistinctPairs ==
  \A i, j \in 1 .. Len(log) :
     (i # j) => ~(log[i].symbol = log[j].symbol /\ log[i].start = log[j].start)

\* C1: after addSymbol calls with pairwise distinct (name, start), getSymbol(a)
\* is the name of an added symbol whose range contains a, and is empty only
\* if no added range contains a; overlapping and nested ranges included.
C1_LookupFindsEnclosingSymbol ==
  DistinctPairs =>
    \A a \in Addresses :
       LET r == getSymbol(a)
       IN  IF r = ""
           THEN \A i \in 1 .. Len(log) : ~InRange(log[i], a)
           ELSE \E i \in 1 .. Len(log) : log[i].symbol = r /\ InRange(log[i], a)

\* The records of a name that start at the given address.
RecordsAt(m, symbol, start) ==
  IF symbol \notin DOMAIN m THEN {}
  ELSE {i \in 1 .. Len(m[symbol]) : m[symbol][i].startingAddress = start}

\* C2: an addSymbol for a (name, start) already recorded with another length
\* throws rld::error; with the recorded length it succeeds and leaves at
\* least two records (name, start, length), all of that length; an addSymbol
\* at a start address not yet recorded for the name never throws.
C2_ReAddSameStart ==
  [][ (log' # log) =>
        LET call == log'[Len(log')]
            old == RecordsAt(info, call.symbol, call.start)
            new == RecordsAt(info', call.symbol, call.start)
        IN  /\ (\E i \in old : info[call.symbol][i].length # call.length)
                  => (call.threw /\ ret'.val = "rld::error")
            /\ (\E i \in old : info[call.symbol][i].length = call.length)
                  => /\ ~call.threw
                     /\ Cardinality(new) >= 2
                     /\ \A i \in new : info'[call.symbol][i].length = call.length
            /\ (old = {}) => ~call.threw
    ]_vars

\* A conflicting re-add threw, and a later re-add with the recorded length
\* succeeded.
C2_Witness ==
  \E i, j, k \in 1 .. Len(log) :
     /\ i < j /\ i < k /\ j # k
     /\ log[j].symbol = log[i].symbol /\ log[j].start = log[i].start
     /\ log[j].length # log[i].length /\ log[j].threw
     /\ log[k].symbol = log[i].symbol /\ log[k].start = log[i].start
     /\ log[k].length = log[i].length /\ ~log[k].threw

\* C9: two records of one name with the same startingAddress have the same
\* length, and every name present in info has at least one record.
C9_SameStartSameLength ==
  \A symbol \in DOMAIN info :
     /\ Len(info[symbol]) >= 1
     /\ \A i, j \in 1 .. Len(info[symbol]) :
          (info[symbol][i].startingAddress = info[symbol][j].startingAddress)
             => (info[symbol][i].length = info[symbol][j].length)

\* A name holds two records at one address after a conflicting add failed.
C9_Witness ==
  /\ \E i \in 1 .. Len(log) : log[i].threw
  /\ \E symbol \in DOMAIN info : \E i, j \in 1 .. Len(info[symbol]) :
        i # j /\ info[symbol][i].startingAddress = info[symbol][j].startingAddress

\* The length passed to the earliest successful addSymbol of a name, 0 if none.
EarliestLength(symbol) ==
  LET ok == {i \in 1 .. Len(log) : log[i].symbol = symbol /\ ~log[i].threw}
  IN  IF ok = {} THEN 0
      ELSE log[CHOOSE i \in ok : \A j \in ok : i <= j].length

\* C10: getLength(name) is the length of the earliest successful addSymbol of
\* the name, 0 for a name never added, and front() is never applied to an
\* empty record list, also after a failed addSymbol.
C10_PrimaryLength ==
  /\ ~ub
  /\ \A symbol \in SymbolNames :
        /\ getLength(symbol) = {EarliestLength(symbol)}
        /\ (symbol \in DOMAIN info) => info[symbol] # <<>>

\* getLength returned the first length of a name that has a later record of
\* another length, after some addSymbol failed; the other name is unknown.
C10_Witness ==
  /\ ret.op = "getLength"
  /\ \E i \in 1 .. Len(log) : log[i].threw
  /\ \E symbol \in DOMAIN info :
        /\ Len(info[symbol]) >= 2
        /\ info[symbol][1].length # info[symbol][2].length
        /\ ret.val = info[symbol][1].length
  /\ \E symbol \in SymbolNames : symbol \notin DOMAIN info
\* C11: an addSymbol that fails with the length conflict leaves the index as
\* it was before the call: the address map contents (hence every getSymbol
\* result) and the records in info are unchanged.
C11_FailedAddLeavesIndex ==
  [][ (log' # log /\ log'[Len(log')].threw)
        => (contents' = contents /\ info' = info) ]_vars

\* -------------------------------------------- properties of rtems-syms

\* The lines of c that belong to the symbol named n start at index i.
EmittedAt(n, i) == i \in 1 .. Len(c) /\ c[i].op = ".asciz" /\ c[i].sym = n
Emitted(n) == \E i \in 1 .. Len(c) : EmittedAt(n, i)

\* Index of the preprocessor conditional holding the address slot of the
\* symbol whose name string is at index i.
SlotAt(i) == IF c[i + 1].op = ".type %tls_object" THEN i + 2 ELSE i + 1

\* The lines q occur contiguously in c.
OccursIn(q) ==
  \E i \in 1 .. (Len(c) - Len(q) + 1) : SubSeq(c, i, i + Len(q) - 1) = q

\* C3: every weak symbol with value 0 of the filtered collection is left out
\* of the generated source, and every weak symbol with a non-zero value is
\* written as a global symbol of the same name, type and value would be.
C3_WeakZeroExcluded ==
  (c # <<>>) =>
    \A n \in DOMAIN filter_symbols :
       LET sym == filter_symbols[n]
       IN  (sym.binding = "weak") =>
             IF sym.value = 0
             THEN ~Emitted(n) /\ \A i \in 1 .. Len(c) : c[i].sym # n
             ELSE OccursIn(output_sym(embed, FALSE,
                                      [sym EXCEPT !.binding = "global"]))

\* C4: with no expressions, filter called with an empty output yields the
\* input itself (every symbol under its own key), for every input size, and
\* does not throw; the "no filtered symbols" error comes from main's check
\* only, exactly when the combined filtered collection is empty.
C4_EmptyPatternIdentity ==
  /\ [](/\ (expr = <<>> /\ pc = "filter_weaks")
             => (filter_symbols = globals /\ ec = 0 /\ where = "")
        /\ (expr = <<>> /\ pc = "check")
             => /\ DOMAIN filter_symbols = (DOMAIN globals) \cup (DOMAIN weaks)
                /\ \A n \in DOMAIN globals : filter_symbols[n] = globals[n]
                /\ \A n \in DOMAIN weaks : filter_symbols[n] = weaks[n]
                /\ ec = 0 /\ where = ""
        /\ (where = "filter")
             => (pc = "done" /\ ec = 10 /\ DOMAIN filter_symbols = {}))
  /\ [][ (where' = "filter" /\ where # "filter") => pc = "check" ]_vars
  /\ [][ (expr = <<>> /\ pc \in {"filter_globals", "filter_weaks"})
            => (pc' # "done") ]_vars

\* No expressions: globals and weaks, both not empty, were copied whole.
C4_Witness ==
  /\ expr = <<>> /\ pc = "check"
  /\ DOMAIN globals # {} /\ DOMAIN weaks # {}
  /\ DOMAIN filter_symbols = (DOMAIN globals) \cup (DOMAIN weaks)

\* The strings an expression denotes under a whole-string match, read from
\* the right end of the expression (anchors stand at the ends only).
RECURSIVE Denotes(_, _)
Denotes(re, s) ==
  IF re = <<>> THEN s = <<>>
  ELSE LET last == re[Len(re)]
           init == SubSeq(re, 1, Len(re) - 1)
       IN  IF last = "$" THEN Denotes(init, s)
           ELSE IF last = "^" THEN s = <<>> /\ init = <<>>
           ELSE IF last = "*"
                THEN \E k \in 0 .. Len(s) :
                        /\ \A x \in (Len(s) - k + 1) .. Len(s) :
                              re[Len(re) - 1] \in {".", s[x]}
                        /\ Denotes(SubSeq(re, 1, Len(re) - 2),
                                   SubSeq(s, 1, Len(s) - k))
           ELSE /\ s # <<>>
                /\ last \in {".", s[Len(s)]}
                /\ Denotes(init, SubSeq(s, 1, Len(s) - 1))

\* The rearrangements of a sequence.
Perms(q) ==
  {[i \in 1 .. Len(q) |-> q[f[i]]] :
     f \in {g \in [1 .. Len(q) -> 1 .. Len(q)] :
              \A i, j \in 1 .. Len(q) : (i # j) => (g[i] # g[j])}}

\* C5: with expressions given, a filter call that returns adds to the
\* output exactly the input symbols whose demangled name is denoted as a
\* whole by some expression, each under its name, keeps what the output
\* held, and yields the same set for every order of the expressions;
\* ^foo$ alone selects the symbol demangled foo and no other.
C5_FullMatchFilter ==
  /\ [][ (pc \in {"filter_globals", "filter_weaks"} /\ expr # <<>> /\ pc' # "done")
           => LET src == IF pc = "filter_globals" THEN globals ELSE weaks
                  m == {n \in DOMAIN src :
                          \E i \in 1 .. Len(expr) : Denotes(expr[i], src[n].demangled)}
              IN  /\ DOMAIN filter_symbols' = (DOMAIN filter_symbols) \cup m
                  /\ \A n \in m : filter_symbols'[n] = src[n]
                  /\ \A n \in (DOMAIN filter_symbols) \ m :
                        filter_symbols'[n] = filter_symbols[n]
       ]_vars
  /\ [](\A q \in Perms(expr) : \A src \in {globals, weaks} :
          LET r == filter(expr, src, <<>>)
              rq == filter(q, src, <<>>)
          IN  rq.threw = r.threw /\ (~r.threw => rq.out = r.out))
  /\ []((expr = << <<"^","f","o","o","$">> >> /\ pc = "check")
          => \A n \in (DOMAIN globals) \cup (DOMAIN weaks) :
                (n \in DOMAIN filter_symbols) <=> (n = "foo"))

\* Two different expressions kept foo, dropped foob and kept a weak symbol.
C5_Witness ==
  /\ pc = "check" /\ Len(expr) = 2 /\ expr[1] # expr[2]
  /\ "foo" \in DOMAIN filter_symbols
  /\ "foob" \in (DOMAIN globals) \ (DOMAIN filter_symbols)
  /\ \E n \in DOMAIN weaks : n \in DOMAIN filter_symbols
  /\ \E n \in DOMAIN weaks : n \notin DOMAIN filter_symbols

\* No artifact of the run exists.
NoArtifact == mapFile = "none" /\ c = <<>> /\ ~ccInvoked /\ ~objectFile

\* C6: when the two filter calls leave filter_symbols empty the run ends
\* with "no filtered symbols" and exit code 10 before the map file is
\* opened, the source generated or the compiler invoked; the map and the
\* object steps run only with a non-empty filter_symbols.
C6_EmptyResultStops ==
  /\ [][ (pc = "check" /\ DOMAIN filter_symbols = {})
           => (pc' = "done" /\ ec' = 10 /\ where' = "filter" /\ NoArtifact') ]_vars
  /\ []((pc = "done" /\ where = "filter") => (ec = 10 /\ NoArtifact))
  /\ []((~NoArtifact \/ pc \in {"map", "output", "close"})
          => DOMAIN filter_symbols # {})

\* A run asked for a map and an object, had symbols, and filtered them all.
C6_Witness ==
  /\ pc = "done" /\ where = "filter" /\ map /\ output
  /\ DOMAIN globals # {} /\ DOMAIN weaks # {} /\ expr # <<>>

\* C7: a run that ends with a non-zero exit code leaves neither a map file
\* nor an object behind.
C7_NoPartialOutput ==
  (pc = "done" /\ ec # 0) => (mapFile = "none" /\ ~objectFile)

\* The number a hexadecimal literal stands for.
RECURSIVE HexValue(_)
HexValue(d) ==
  IF d = <<>> THEN 0
  ELSE 16 * HexValue(SubSeq(d, 1, Len(d) - 1))
       + (CHOOSE k \in 0 .. 15 : HexDigit[k + 1] = d[Len(d)])

\* The five lines at k are the pointer width conditional around a slot.
SlotShape(k) ==
  /\ k + 4 <= Len(c)
  /\ c[k].op = "#if __SIZEOF_POINTER__ == 8" /\ c[k + 1].op = ".quad"
  /\ c[k + 2].op = "#else" /\ c[k + 3].op = ".long" /\ c[k + 4].op = "#endif"

\* With embed both branches refer to the symbol by name, without a literal.
EmbedSlot(n, k) ==
  /\ c[k + 1].sym = n /\ c[k + 1].lit = <<>>
  /\ c[k + 3].sym = n /\ c[k + 3].lit = <<>>

\* d is the value v in hexadecimal with exactly w digits.
FixedWidthHex(d, v, w) ==
  /\ Len(d) = w
  /\ \A x \in 1 .. Len(d) : \E k \in 1 .. 16 : HexDigit[k] = d[x]
  /\ HexValue(d) = v

\* C8 as stated: without embed the .long branch holds the value in 8 hex
\* digits and the .quad branch holds it in 16; with embed both branches
\* refer to the symbol's name.
C8_SlotWidths8And16 ==
  \A n \in DOMAIN filter_symbols : \A i \in 1 .. Len(c) :
     EmittedAt(n, i) =>
       LET k == SlotAt(i)
       IN  /\ SlotShape(k)
           /\ IF embed THEN EmbedSlot(n, k)
              ELSE /\ c[k + 1].sym = "" /\ c[k + 3].sym = ""
                   /\ FixedWidthHex(c[k + 3].lit, filter_symbols[n].value, 8)
                   /\ FixedWidthHex(c[k + 1].lit, filter_symbols[n].value, 16)

\* C8 amended: without embed both branches hold the same literal, the value
\* in 8 zero-padded hex digits; with embed both refer to the symbol's name.
C8_SlotWidth8Both ==
  \A n \in DOMAIN filter_symbols :
     (c # <<>>) =>
       \E i \in 1 .. Len(c) :
          /\ EmittedAt(n, i)
          /\ LET k == SlotAt(i)
             IN  /\ SlotShape(k)
                 /\ IF embed THEN EmbedSlot(n, k)
                    ELSE /\ c[k + 1].sym = "" /\ c[k + 3].sym = ""
                         /\ FixedWidthHex(c[k + 3].lit, filter_symbols[n].value, 8)
                         /\ c[k + 1].lit = c[k + 3].lit

\* Source generated without embed for a value of 8 significant digits, a
\* value that needs padding and a thread-local symbol.
C8_Witness ==
  /\ c # <<>> /\ ~embed
  /\ Emitted("foo") /\ Emitted("foob") /\ Emitted("wo")
====
